---- MODULE Spec2Model ----
(***************************************************************************)
(* Model of the chunked stabilizer pipeline of DelayedDecoder_Cluster:     *)
(*   submit_stabilizer.py            (job-array planning and submission)   *)
(*   ComputeStabilizerChunk.py       (chunk range clamp and file name)     *)
(*   MergeStabilizerChunks.py        (exact reducer)                       *)
(*   MergeStabilizerChunksSampled.py (sampled reducer)                     *)
(* Each program is one specification over the shared variable tuple; the   *)
(* variables of the programs a specification does not run stay at their    *)
(* idle values.                                                            *)
(***************************************************************************)
EXTENDS Integers, Sequences, FiniteSets, TLC

VARIABLES
    pc,             \* control point of the running program
    graph_desc,     \* submit: sys.argv[1]
    chunk_size,     \* submit: int(sys.argv[2])
    dry_run,        \* submit: "--dry-run" in sys.argv
    n_total,        \* binom(n_qbts, distance) / len(all_loss_idx_combos)
    n_jobs,         \* submit: math.ceil(n_total / chunk_size)
    batch_file,     \* submit: TRUE once submit_stabilizer.batch is written
    sbatch,         \* submit: <<>> or <<first, last>> of the submitted --array
    task_ranges,    \* submit: array task id -> <<IDX_MIN, IDX_MAX>> once it ran
    chunk_dir,      \* reducers: the chunk files present in the directory
    chunk_files,    \* reducers: sorted(glob.glob(pattern))
    error,          \* reducers: "" or the exception / exit that ended the run
    saved,          \* reducers: number of np.save calls of the artifact
    artifact,       \* reducers: the strats of the saved decoder
    unique_strats,  \* exact: the deduplicated strategies
    missing,        \* reducers: the reported set of uncovered loss patterns
    top_x,          \* sampled: --top
    seed,           \* sampled: --seed
    rng,            \* sampled: state of random.Random(seed)
    kf,             \* sampled: index of the chunk file being processed
    lp_idx,         \* sampled: loss pattern index inside the chunk's range
    selected_strats,\* sampled: insertion-ordered keys of the dict
    covered_lp,     \* sampled: set of loss pattern indices seen
    n_no_valid,     \* sampled: loss patterns with no valid strategy
    draws,          \* sampled: log of the rng.choice calls
    skipped,        \* sampled: log of the files whose load failed
    run,            \* sampled: 1 for the first run, 2 for the repeated run
    first           \* sampled: selected_strats of the first run

vars == << pc, graph_desc, chunk_size, dry_run, n_total, n_jobs, batch_file,
           sbatch, task_ranges, chunk_dir, chunk_files, error, saved,
           artifact, unique_strats, missing, top_x, seed, rng, kf, lp_idx, selected_strats,
           covered_lp, n_no_valid, draws, skipped, run, first >>

submitVars == << graph_desc, chunk_size, dry_run, n_total, n_jobs,
                 batch_file, sbatch, task_ranges >>

reducerVars == << chunk_dir, chunk_files, error, saved, artifact,
                 unique_strats, missing >>

sampledVars == << top_x, seed, rng, kf, lp_idx, selected_strats, covered_lp,
                  n_no_valid, draws, skipped, run, first >>

(***************************************************************************)
(* Bounds of the model.                                                    *)
(***************************************************************************)
MaxQbts == 5        \* submit: registry instances have last_node <= MaxQbts
MaxChunkSize == 4   \* submit: |ChunkSize| <= MaxChunkSize
MaxFiles == 2       \* reducers: chunk files in the chunk directory

Max(a, b) == IF a >= b THEN a ELSE b
Min(a, b) == IF a <= b THEN a ELSE b

(***************************************************************************)
(* GraphDatabase.GraphInformation as the scheduler reads it: one instance  *)
(* per <<last_node, distance>> with 0 <= distance <= last_node, and the    *)
(* instance LargeGraph, whose 15 loss patterns have indices of one and of  *)
(* two decimal digits.                                                     *)
(***************************************************************************)
LargeGraph == <<6, 2>>

GraphInformation ==
    [g \in {nd \in (0..MaxQbts) \X (0..MaxQbts) : nd[2] <= nd[1]} \cup {LargeGraph}
       |-> [last_node |-> g[1], distance |-> g[2]]]

UnknownGraph == <<0, 1>>    \* an id that is no key of GraphInformation

RECURSIVE factorial(_)
factorial(n) == IF n <= 1 THEN 1 ELSE n * factorial(n - 1)

binom(n, k) == factorial(n) \div (factorial(k) * factorial(n - k))

(***************************************************************************)
(* math.ceil(a / b) for a >= 0 and b # 0.  The quotient a / b is a float;  *)
(* it is exact for every a below 2^53, which covers the bounded model.     *)
(***************************************************************************)
CeilDiv(a, b) ==
    IF b > 0 THEN (a + b - 1) \div b ELSE -(a \div (-b))

(***************************************************************************)
(* The batch script's arithmetic for array task id:                        *)
(*   IDX_MIN=$((ID * chunk_size)); IDX_MAX=$(((ID + 1) * chunk_size));     *)
(*   if [ $IDX_MAX -gt n_total ]; then IDX_MAX=n_total; fi                 *)
(***************************************************************************)
TaskRangeUncapped(id, cs, total) == << id * cs, (id + 1) * cs >>

TaskRange(id, cs, total) ==
    << id * cs, IF (id + 1) * cs > total THEN total ELSE (id + 1) * cs >>

(***************************************************************************)
(* submit_stabilizer.py, __main__.                                         *)
(***************************************************************************)
ReducerIdle ==
    /\ chunk_dir = {} /\ chunk_files = <<>> /\ error = ""
    /\ saved = 0 /\ artifact = <<>> /\ unique_strats = <<>> /\ missing = {}

SampledIdle ==
    /\ top_x = 1 /\ seed = 0 /\ rng = 0 /\ kf = 0 /\ lp_idx = 0
    /\ selected_strats = <<>> /\ covered_lp = {} /\ n_no_valid = 0
    /\ draws = <<>> /\ skipped = <<>> /\ run = 1 /\ first = <<>>

InitSubmit ==
    /\ pc = "submit_start"
    /\ graph_desc \in DOMAIN GraphInformation \cup {UnknownGraph}
    /\ chunk_size \in (-MaxChunkSize)..MaxChunkSize
    /\ dry_run \in BOOLEAN
    /\ n_total = 0 /\ n_jobs = 0 /\ batch_file = FALSE
    /\ sbatch = <<>> /\ task_ranges = <<>>
    /\ ReducerIdle /\ SampledIdle

\* lines 42-45: unknown graph, sys.exit(1)
SubmitUnknownGraph ==
    /\ pc = "submit_start"
    /\ graph_desc \notin DOMAIN GraphInformation
    /\ pc' = "exit_1"
    /\ UNCHANGED << submitVars, reducerVars, sampledVars >>

\* lines 47-51 with chunk_size = 0: n_total / chunk_size raises
SubmitZeroDivision ==
    /\ pc = "submit_start"
    /\ graph_desc \in DOMAIN GraphInformation
    /\ chunk_size = 0
    /\ n_total' = binom(GraphInformation[graph_desc].last_node,
                        GraphInformation[graph_desc].distance)
    /\ pc' = "ZeroDivisionError"
    /\ UNCHANGED << graph_desc, chunk_size, dry_run, n_jobs, batch_file,
                    sbatch, task_ranges, reducerVars, sampledVars >>

\* lines 47-51: the plan
SubmitPlan ==
    /\ pc = "submit_start"
    /\ graph_desc \in DOMAIN GraphInformation
    /\ chunk_size # 0
    /\ n_total' = binom(GraphInformation[graph_desc].last_node,
                        GraphInformation[graph_desc].distance)
    /\ n_jobs' = CeilDiv(n_total', chunk_size)
    /\ pc' = "submit_planned"
    /\ UNCHANGED << graph_desc, chunk_size, dry_run, batch_file,
                    sbatch, task_ranges, reducerVars, sampledVars >>

\* lines 104-107: dry run prints the script and the array, submits nothing
SubmitDryRun ==
    /\ pc = "submit_planned"
    /\ dry_run
    /\ pc' = "submit_done"
    /\ UNCHANGED << submitVars, reducerVars, sampledVars >>

\* lines 108-119: write the batch file, then sbatch --array=0-(n_jobs - 1)
SubmitDispatch ==
    /\ pc = "submit_planned"
    /\ ~dry_run
    /\ batch_file' = TRUE
    /\ sbatch' = << 0, n_jobs - 1 >>
    /\ pc' = "submit_done"
    /\ UNCHANGED << graph_desc, chunk_size, dry_run, n_total, n_jobs,
                    task_ranges, reducerVars, sampledVars >>

\* One array task of the submitted job (batch script lines 83-95).
RunTask ==
    /\ pc = "submit_done"
    /\ sbatch # <<>>
    /\ \E id \in sbatch[1]..sbatch[2] :
          /\ id \notin DOMAIN task_ranges
          /\ task_ranges' = [t \in DOMAIN task_ranges \cup {id} |->
                               IF t = id
                               THEN TaskRange(id, chunk_size, n_total)
                               ELSE task_ranges[t]]
    /\ UNCHANGED << pc, graph_desc, chunk_size, dry_run, n_total, n_jobs,
                    batch_file, sbatch, reducerVars, sampledVars >>

NextSubmit ==
    \/ SubmitUnknownGraph
    \/ SubmitZeroDivision
    \/ SubmitPlan
    \/ SubmitDryRun
    \/ SubmitDispatch
    \/ RunTask

SpecSubmit == InitSubmit /\ [][NextSubmit]_vars

(***************************************************************************)
(* Claims about the scheduler.                                             *)
(***************************************************************************)
Instance == GraphInformation[graph_desc]

\* The d-element subsets of {0..n-1}, counted directly.
SubsetsOfSize(n, d) == {S \in SUBSET (0..(n - 1)) : Cardinality(S) = d}

Keys(r) == r[1]..(r[2] - 1)     \* the indices of the half-open range r

\* The submitted array is 0..N-1 with N the least count of chunks of
\* chunk_size that reaches n_total.
ArrayIsCeil ==
    /\ sbatch[1] = 0
    /\ (sbatch[2] + 1) * chunk_size >= n_total
    /\ sbatch[2] * chunk_size < n_total

C2_BadConfigFailsBeforeDispatch ==
    (chunk_size <= 0 \/ graph_desc \notin DOMAIN GraphInformation) =>
        /\ pc # "submit_done"
        /\ batch_file = FALSE
        /\ sbatch = <<>>

(***************************************************************************)
(* Strategies: a pair <<pauli_X, pauli_Z>> of words of length n_qbts + 1;  *)
(* TLA+ index q + 1 is Python index q.  The pool is for n_qbts = 3.        *)
(***************************************************************************)
StratX  == << <<"X","I","I","Z">>, <<"Z","I","I","X">> >>
StratZ  == << <<"I","I","X","I">>, <<"I","I","Z","I">> >>
StratZ2 == << <<"X","I","X","I">>, <<"Z","I","Z","I">> >>
StratW  == << <<"X","Z","I","I">>, <<"Z","X","I","I">> >>
StratY  == << <<"X","I","I","I">>, <<"Z","I","I","I">> >>
StratV  == << <<"Z","I","I","I">>, <<"X","I","X","I">> >>

\* Strategies for n_qbts = 6 (LargeGraph).
StratA  == << <<"X","I","I","I","X","X","X">>, <<"Z","I","I","I","Z","Z","Z">> >>
StratB  == << <<"X","I","I","I","I","I","X">>, <<"Z","I","I","I","I","I","Z">> >>
StratC  == << <<"X","I","I","X","X","X","X">>, <<"Z","I","I","Z","Z","Z","Z">> >>
StratD  == << <<"I","I","I","I","I","X","X">>, <<"I","I","I","I","I","Z","Z">> >>
StratE  == << <<"X","Z","I","I","I","I","I">>, <<"Z","X","I","I","I","I","I">> >>
StratF  == << <<"X","X","Z","I","I","I","I">>, <<"Z","Z","X","I","I","I","I">> >>

\* the strategy that is identity exactly on the code qubits of lost
StratOwn(lost, n) ==
    << [q \in 1..(n + 1) |-> IF (q - 2) \in lost THEN "I" ELSE "X"],
       [q \in 1..(n + 1) |-> IF (q - 2) \in lost THEN "I" ELSE "Z"] >>

ReducerGraph == <<3, 2>>    \* the instance the reducers are run for
ForeignGraph == <<4, 2>>    \* another instance, for chunks that disagree

(***************************************************************************)
(* itertools.combinations(range(n), d) from lo on: lexicographic tuples.   *)
(***************************************************************************)
RECURSIVE Combinations(_, _, _)
Combinations(lo, n, d) ==
    IF d = 0 THEN << <<>> >>
    ELSE IF lo >= n THEN <<>>
    ELSE LET with == Combinations(lo + 1, n, d - 1)
         IN  [i \in 1..Len(with) |-> <<lo>> \o with[i]]
             \o Combinations(lo + 1, n, d)

all_loss_idx_combos(n, d) == Combinations(0, n, d)

(***************************************************************************)
(* decoder.run_specific_loss_pattern (ErasureDecoder, external): what the  *)
(* oracle returns per loss pattern index, <<>> when its flag is False.     *)
(***************************************************************************)
OraclePool(g) ==
    IF g = ReducerGraph
    THEN { << <<StratX, StratZ>>, <<StratZ2>>, <<StratW>> >>,
           << <<StratY>>, <<>>, <<StratW, StratY>> >>,
           << <<StratX>>, <<StratV, StratZ2, StratZ>>, <<>> >>,
           << <<StratW>>, <<StratW>>, <<StratX>> >> }
    ELSE IF g = LargeGraph
    THEN { [k \in 1..binom(g[1], g[2]) |->
               IF k = 1 THEN <<StratA, StratB, StratC, StratD>>
               ELSE IF k = 6 THEN <<StratE>>
               ELSE IF k = 13 THEN <<StratF>>
               ELSE <<>>],
           [k \in 1..binom(g[1], g[2]) |->
               LET lost == all_loss_idx_combos(g[1], g[2])[k]
               IN  << StratOwn({lost[i] : i \in DOMAIN lost}, g[1]) >>] }
    ELSE { [k \in 1..binom(g[1], g[2]) |-> <<>>] }

RECURSIVE Concat(_, _, _)
Concat(f, lo, hi) ==    \* f[lo + 1] \o ... \o f[hi], Python indices lo..hi-1
    IF lo >= hi THEN <<>> ELSE f[lo + 1] \o Concat(f, lo + 1, hi)

(***************************************************************************)
(* ComputeStabilizerChunk.compute_chunk: the clamp of the range and the    *)
(* strategies of the loss patterns in it, in index order.                  *)
(***************************************************************************)
compute_chunk(g, oracle, IdxMin, IdxMax) ==
    LET total == Len(all_loss_idx_combos(GraphInformation[g].last_node,
                                         GraphInformation[g].distance))
        hi == Min(IdxMax, total)
        lo == Max(IdxMin, 0)
    IN  [ strats |-> Concat(oracle, lo, hi),
          idx_min |-> lo,
          idx_max |-> hi,
          n_loss_patterns_total |-> total,
          n_qbts |-> GraphInformation[g].last_node,
          distance |-> GraphInformation[g].distance ]

\* A file of the chunk directory: its name is made of IdxMin and IdxMax as
\* given on the command line; np.load of it succeeds iff loadable.
ChunkFile(g, oracle, IdxMin, IdxMax, loadable) ==
    [ IdxMin |-> IdxMin, IdxMax |-> IdxMax, loadable |-> loadable,
      chunk |-> compute_chunk(g, oracle, IdxMin, IdxMax) ]

RECURSIVE Digits(_)
Digits(n) ==    \* "%d" % n for n >= 0, as character codes
    IF n < 10 THEN << 48 + n >> ELSE Digits(n \div 10) \o << 48 + (n % 10) >>

FileNameByIdxMax(f) == Digits(f.IdxMax) \o <<95>> \o Digits(f.IdxMin) \o <<46>>

\* "<graph>_chunk_%d_%d.npy" without the prefix and the "npy" that every
\* globbed file shares: the digits, "_" (95), the digits, "." (46).
FileName(f) == Digits(f.IdxMin) \o <<95>> \o Digits(f.IdxMax) \o <<46>>

\* Python's str order: code point by code point, a proper prefix first.
StrLess(a, b) ==
    \E i \in 1..(Min(Len(a), Len(b)) + 1) :
        /\ \A j \in 1..(i - 1) : a[j] = b[j]
        /\ \/ (i > Len(a) /\ i <= Len(b))
           \/ (i <= Len(a) /\ i <= Len(b) /\ a[i] < b[i])

RECURSIVE Insert(_, _)
Insert(f, s) ==
    IF s = <<>> THEN << f >>
    ELSE IF StrLess(FileName(f), FileName(Head(s))) THEN << f >> \o s
    ELSE << Head(s) >> \o Insert(f, Tail(s))

RECURSIVE SortByName(_)
SortByName(s) ==
    IF s = <<>> THEN <<>> ELSE Insert(Head(s), SortByName(Tail(s)))

Unsorted(listing) == listing

\* sorted(glob.glob(pattern)) of a directory listing in any order
sorted(listing) == SortByName(listing)

\* glob.glob(pattern): the files of the directory in some order
Listings(dir) ==
    {l \in [1..Cardinality(dir) -> dir] : \A f \in dir : \E i \in DOMAIN l : l[i] = f}

(***************************************************************************)
(* Chunk directories: at most MaxFiles files with different names, written *)
(* by ComputeStabilizerChunk with one oracle; the files of foreign were    *)
(* written for ForeignGraph, those of unloadable cannot be loaded.         *)
(***************************************************************************)
NamePool(g) ==
    LET total == binom(GraphInformation[g].last_node, GraphInformation[g].distance)
    IN  {nm \in (0..(total - 1)) \X (1..(total + 1)) : nm[1] < nm[2]}

NameSets(g) == {N \in SUBSET NamePool(g) : Cardinality(N) <= MaxFiles}

\* the names of the files the job array of submit_stabilizer writes for
\* chunk size cs: one per array task, "%d_%d" of its IDX_MIN and IDX_MAX
PlannedChunkSizes == {4, 5, 8, 15}

PlannedNames(g, cs) ==
    LET total == binom(GraphInformation[g].last_node, GraphInformation[g].distance)
    IN  {TaskRange(id, cs, total) : id \in 0..(CeilDiv(total, cs) - 1)}

Directory(g, oracle, names, unloadable, foreign) ==
    { IF nm \in foreign
      THEN ChunkFile(ForeignGraph, CHOOSE o \in OraclePool(ForeignGraph) : TRUE,
                     nm[1], nm[2], nm \notin unloadable)
      ELSE ChunkFile(g, oracle, nm[1], nm[2], nm \notin unloadable)
      : nm \in names }

(***************************************************************************)
(* MergeStabilizerChunks.py: merge_chunks and __main__.                    *)
(***************************************************************************)
InitMerge ==
    /\ pc = "merge_start"
    /\ graph_desc = ReducerGraph
    /\ chunk_size = 1 /\ dry_run = FALSE
    /\ n_total = 0 /\ n_jobs = 0 /\ batch_file = FALSE
    /\ sbatch = <<>> /\ task_ranges = <<>>
    /\ \E oracle \in OraclePool(ReducerGraph), names \in NameSets(ReducerGraph) :
         \E foreign \in SUBSET names :
            chunk_dir = Directory(ReducerGraph, oracle, names, {}, foreign)
    /\ chunk_files = <<>> /\ error = "" /\ saved = 0 /\ artifact = <<>>
    /\ unique_strats = <<>> /\ missing = {}
    /\ SampledIdle

\* lines 42-47: no chunk file matches, sys.exit(1)
MergeNoFiles ==
    /\ pc = "merge_start"
    /\ chunk_dir = {}
    /\ pc' = "exit_1"
    /\ error' = "SystemExit"
    /\ UNCHANGED << submitVars, chunk_dir, chunk_files, saved, artifact,
                    unique_strats, missing, sampledVars >>

\* lines 42-53: the sorted glob, then seen = set(), unique_strats = []
MergeGlob ==
    /\ pc = "merge_start"
    /\ chunk_dir # {}
    /\ \E listing \in Listings(chunk_dir) : chunk_files' = sorted(listing)
    /\ unique_strats' = <<>>
    /\ pc' = "merge_dedup"
    /\ UNCHANGED << submitVars, chunk_dir, error, saved, artifact, missing,
                    sampledVars >>

\* line 54: "for strat in all_strats" reads a name that is bound nowhere in
\* the function or the module: NameError.  It propagates out of merge_chunks
\* and out of __main__ (line 146), so lines 60-136 and np.save (line 150)
\* are never executed.
MergeDedupAllStrats ==
    /\ pc = "merge_dedup"
    /\ pc' = "NameError"
    /\ error' = "NameError"
    /\ UNCHANGED << submitVars, chunk_dir, chunk_files, saved, artifact,
                    unique_strats, missing, sampledVars >>

NextMerge ==
    \/ MergeNoFiles
    \/ MergeGlob
    \/ MergeDedupAllStrats

SpecMerge == InitMerge /\ [][NextMerge]_vars

(***************************************************************************)
(* Claims about the exact reducer.                                         *)
(***************************************************************************)
MergeEnded == pc \notin {"merge_start", "merge_dedup"}

Elements(s) == {s[i] : i \in DOMAIN s}

NoDuplicates(s) == \A i, j \in DOMAIN s : s[i] = s[j] => i = j

\* C3: for every non-empty set of chunk files merge_chunks completes, and
\* the strategies it hands to order_strats have no duplicate and are, as a
\* set, the union of the strats of all chunks.
C3_MergeIsDedupedUnion ==
    (MergeEnded /\ chunk_dir # {}) =>
        /\ error = ""
        /\ NoDuplicates(unique_strats)
        /\ Elements(unique_strats)
               = UNION {Elements(f.chunk.strats) : f \in chunk_dir}

ChunksDisagree ==
    \E f, h \in chunk_dir :
        \/ f.chunk.n_loss_patterns_total # h.chunk.n_loss_patterns_total
        \/ f.chunk.n_qbts # h.chunk.n_qbts
        \/ f.chunk.distance # h.chunk.distance

\* C4: when two chunks report different totals, n or d, the run aborts with
\* the consistency error and the artifact is never written; the artifact is
\* written at most once and only after merge_chunks returned normally.
C4_MismatchAbortsUnwritten ==
    /\ (MergeEnded /\ ChunksDisagree) => (error = "AssertionError" /\ saved = 0)
    /\ saved <= 1
    /\ saved = 1 => error = ""

Uncovered ==
    LET total == binom(GraphInformation[graph_desc].last_node,
                       GraphInformation[graph_desc].distance)
    IN  {k \in 0..(total - 1) :
            \A f \in chunk_dir : ~(f.chunk.idx_min <= k /\ k < f.chunk.idx_max)}

\* C5: the run over a non-empty chunk set is not aborted and returns the
\* artifact, whether or not every index is covered, and the reported
\* missing set is exactly the indices of [0, total) in no chunk's
\* [idx_min, idx_max).
C5_MissingIsUncovered ==
    (MergeEnded /\ chunk_dir # {}) =>
        /\ error = ""
        /\ missing = Uncovered

(***************************************************************************)
(* MergeStabilizerChunksSampled.py.                                        *)
(***************************************************************************)
TopXs == {-1, 0, 1, 2, 10}      \* --top (10 is the default)
Seeds == {0, 42}                \* --seed (42 is the default)

\* measurement[qbt] = stab1[qbt] if stab1[qbt] != 'I' else stab2[qbt] for
\* qbt in range(n_qbts + 1); the weight is n_qbts - measurement.count('I').
compute_meas_weight(stab1, stab2, n_qbts) ==
    n_qbts - Cardinality({qbt \in 0..n_qbts :
                 (IF stab1[qbt + 1] # "I" THEN stab1[qbt + 1]
                                         ELSE stab2[qbt + 1]) = "I"})

identity_support_stab1_only(stab1, stab2, n_qbts) ==
    {qbt_idx - 1 : qbt_idx \in {q \in 1..n_qbts : stab1[q + 1] = "I"}}

\* the 0-based code qubits where both words are identity
identity_support(stab1, stab2, n_qbts) ==
    {qbt_idx - 1 : qbt_idx \in {q \in 1..n_qbts :
                                   stab1[q + 1] = "I" /\ stab2[q + 1] = "I"}}

\* lines 126-129: the (1-based) indices of the chunk's strategies whose
\* identity support contains lost_set, in index order
ValidIdx(chunk_strats, lost_set, n_qbts) ==
    SelectSeq([i \in 1..Len(chunk_strats) |-> i],
              LAMBDA i : lost_set \subseteq
                  identity_support(chunk_strats[i][1], chunk_strats[i][2], n_qbts))

Weight(chunk_strats, i, n_qbts) ==
    compute_meas_weight(chunk_strats[i][1], chunk_strats[i][2], n_qbts)

\* line 136: valid.sort(key=lambda x: x[0]), a stable sort by weight
RECURSIVE InsertByWeight(_, _, _, _)
InsertByWeight(i, s, chunk_strats, n_qbts) ==
    IF s = <<>> THEN << i >>
    ELSE IF Weight(chunk_strats, Head(s), n_qbts) > Weight(chunk_strats, i, n_qbts)
         THEN << i >> \o s
         ELSE << Head(s) >> \o InsertByWeight(i, Tail(s), chunk_strats, n_qbts)

RECURSIVE SortByWeightTiesReversed(_, _, _)
SortByWeightTiesReversed(s, chunk_strats, n_qbts) ==
    IF s = <<>> THEN <<>>
    ELSE InsertByWeight(Head(s),
                        SortByWeightTiesReversed(Tail(s), chunk_strats, n_qbts),
                        chunk_strats, n_qbts)

RECURSIVE SortByWeight(_, _, _)
SortByWeight(s, chunk_strats, n_qbts) ==
    IF s = <<>> THEN <<>>
    ELSE InsertByWeight(s[Len(s)],
                        SortByWeight(SubSeq(s, 1, Len(s) - 1), chunk_strats, n_qbts),
                        chunk_strats, n_qbts)

\* line 137: valid[:top_x], Python's slice (a negative top_x counts from
\* the end)
PySlice(s, x) ==
    SubSeq(s, 1, IF x >= 0 THEN Min(x, Len(s)) ELSE Max(Len(s) + x, 0))

(***************************************************************************)
(* random.Random(seed) and rng.choice.  The Mersenne Twister is modelled   *)
(* by a small full-period congruential generator: what the reducer relies  *)
(* on is that a draw is a function of the seed and of the draws before it. *)
(***************************************************************************)
Random(s) == s % 64
RngStep(r) == (13 * r + 7) % 64
RandBelow(r, n) == (RngStep(r) \div 8) % n

(***************************************************************************)
(* merge_chunks_sampled and __main__.  kf and lp_idx are Python indices.   *)
(***************************************************************************)
n_qbts == GraphInformation[graph_desc].last_node
distance == GraphInformation[graph_desc].distance

CurFile == chunk_files[kf + 1]
chunk_strats == CurFile.chunk.strats
lost_set == Elements(all_loss_idx_combos(n_qbts, distance)[lp_idx + 1])
valid == SortByWeight(ValidIdx(chunk_strats, lost_set, n_qbts), chunk_strats, n_qbts)
candidates == PySlice(valid, top_x)

InitSampled ==
    /\ pc = "sampled_start"
    /\ chunk_size = 1 /\ dry_run = FALSE
    /\ n_total = 0 /\ n_jobs = 0 /\ batch_file = FALSE
    /\ sbatch = <<>> /\ task_ranges = <<>>
    /\ \/ /\ graph_desc = ReducerGraph
          /\ \E oracle \in OraclePool(ReducerGraph), names \in NameSets(ReducerGraph) :
               \E unloadable \in SUBSET names :
                  chunk_dir = Directory(ReducerGraph, oracle, names, unloadable, {})
       \/ /\ graph_desc = LargeGraph
          /\ \E oracle \in OraclePool(LargeGraph), cs \in PlannedChunkSizes :
               chunk_dir = Directory(LargeGraph, oracle,
                                     PlannedNames(LargeGraph, cs), {}, {})
    /\ chunk_files = <<>> /\ error = "" /\ saved = 0 /\ artifact = <<>>
    /\ unique_strats = <<>> /\ missing = {}
    /\ top_x \in TopXs
    /\ seed \in Seeds
    /\ rng = 0 /\ kf = 0 /\ lp_idx = 0
    /\ selected_strats = <<>> /\ covered_lp = {} /\ n_no_valid = 0
    /\ draws = <<>> /\ skipped = <<>> /\ run = 1 /\ first = <<>>

runVars == << run, first >>

\* lines 69-76: no chunk file matches, sys.exit(1)
SampledNoFiles ==
    /\ pc = "sampled_start"
    /\ chunk_dir = {}
    /\ rng' = Random(seed)
    /\ pc' = "exit_1"
    /\ error' = "SystemExit"
    /\ UNCHANGED << submitVars, chunk_dir, chunk_files, saved, artifact,
                    unique_strats, missing, top_x, seed, kf, lp_idx,
                    selected_strats, covered_lp, n_no_valid, draws, skipped,
                    runVars >>

\* lines 69-97: the seeded generator, the sorted glob, n_total and the
\* empty accumulators
SampledGlob ==
    /\ pc = "sampled_start"
    /\ chunk_dir # {}
    /\ rng' = Random(seed)
    /\ \E listing \in Listings(chunk_dir) : chunk_files' = sorted(listing)
    /\ n_total' = Len(all_loss_idx_combos(n_qbts, distance))
    /\ selected_strats' = <<>>
    /\ covered_lp' = {}
    /\ n_no_valid' = 0
    /\ kf' = 0
    /\ pc' = "sampled_loop"
    /\ UNCHANGED << graph_desc, chunk_size, dry_run, n_jobs, batch_file,
                    sbatch, task_ranges, chunk_dir, error, saved, artifact,
                    unique_strats, missing, top_x, seed, lp_idx, draws,
                    skipped, runVars >>

SampledLoadFailsAborts ==
    /\ pc = "sampled_loop"
    /\ kf < Len(chunk_files)
    /\ ~CurFile.loadable
    /\ skipped' = Append(skipped, kf)
    /\ pc' = "Exception"
    /\ error' = "Exception"
    /\ UNCHANGED << submitVars, chunk_dir, chunk_files, saved, artifact,
                    unique_strats, missing, top_x, seed, rng, kf, lp_idx,
                    selected_strats, covered_lp, n_no_valid, draws, runVars >>

\* lines 101-105: np.load raises, the file is reported and skipped
SampledLoadFails ==
    /\ pc = "sampled_loop"
    /\ kf < Len(chunk_files)
    /\ ~CurFile.loadable
    /\ skipped' = Append(skipped, kf)
    /\ kf' = kf + 1
    /\ UNCHANGED << submitVars, reducerVars, pc, top_x, seed, rng, lp_idx,
                    selected_strats, covered_lp, n_no_valid, draws, runVars >>

\* lines 101-121: the chunk is loaded; an empty range has no loss pattern
\* to process and the loop goes on to the next file
SampledLoadChunk ==
    /\ pc = "sampled_loop"
    /\ kf < Len(chunk_files)
    /\ CurFile.loadable
    /\ lp_idx' = CurFile.chunk.idx_min
    /\ IF CurFile.chunk.idx_min < CurFile.chunk.idx_max
       THEN pc' = "sampled_keys" /\ kf' = kf
       ELSE pc' = "sampled_loop" /\ kf' = kf + 1
    /\ UNCHANGED << submitVars, reducerVars, top_x, seed, rng,
                    selected_strats, covered_lp, n_no_valid, draws, skipped,
                    runVars >>

\* the end of one iteration of "for lp_idx in range(idx_min, idx_max)"
NextKey ==
    /\ lp_idx' = lp_idx + 1
    /\ IF lp_idx + 1 < CurFile.chunk.idx_max
       THEN pc' = "sampled_keys" /\ kf' = kf
       ELSE pc' = "sampled_loop" /\ kf' = kf + 1

\* lines 122-133: no strategy of the chunk is valid for the loss pattern
SampledKeyNoValid ==
    /\ pc = "sampled_keys"
    /\ valid = <<>>
    /\ covered_lp' = covered_lp \cup {lp_idx}
    /\ n_no_valid' = n_no_valid + 1
    /\ NextKey
    /\ UNCHANGED << submitVars, reducerVars, top_x, seed, rng,
                    selected_strats, draws, skipped, runVars >>

\* lines 122-138: valid[:top_x] is empty, rng.choice raises IndexError
SampledKeyChoiceFails ==
    /\ pc = "sampled_keys"
    /\ valid # <<>>
    /\ candidates = <<>>
    /\ covered_lp' = covered_lp \cup {lp_idx}
    /\ pc' = "IndexError"
    /\ error' = "IndexError"
    /\ UNCHANGED << submitVars, chunk_dir, chunk_files, saved, artifact,
                    unique_strats, missing, top_x, seed, rng, kf, lp_idx,
                    selected_strats, n_no_valid, draws, skipped, runVars >>

\* lines 122-143: one of the top_x lightest valid strategies is chosen and
\* kept unless it is already selected
SampledKeySelect ==
    /\ pc = "sampled_keys"
    /\ candidates # <<>>
    /\ covered_lp' = covered_lp \cup {lp_idx}
    /\ rng' = RngStep(rng)
    /\ LET chosen_idx == candidates[RandBelow(rng, Len(candidates)) + 1]
           chosen == chunk_strats[chosen_idx]
       IN  /\ selected_strats' =
                 IF chosen \in Elements(selected_strats)
                 THEN selected_strats
                 ELSE Append(selected_strats, chosen)
           /\ draws' = Append(draws, [ kf |-> kf, lp_idx |-> lp_idx,
                                       candidates |-> candidates,
                                       chosen_idx |-> chosen_idx,
                                       chosen |-> chosen ])
    /\ NextKey
    /\ UNCHANGED << submitVars, reducerVars, top_x, seed, n_no_valid,
                    skipped, runVars >>

\* lines 155-195 and 216-220: the coverage report, the decoder built from
\* the selected strategies, and np.save of it
SampledSave ==
    /\ pc = "sampled_loop"
    /\ kf = Len(chunk_files)
    /\ missing' = (0..(n_total - 1)) \ covered_lp
    /\ artifact' = selected_strats
    /\ saved' = saved + 1
    /\ pc' = "sampled_saved"
    /\ UNCHANGED << submitVars, chunk_dir, chunk_files, error, unique_strats,
                    sampledVars >>

\* the program is run again on the same directory with the same --top and
\* --seed; the saved file does not match the glob pattern
SampledRunAgain ==
    /\ pc = "sampled_saved"
    /\ run = 1
    /\ first' = [ selected_strats |-> selected_strats, draws |-> draws,
                  artifact |-> artifact ]
    /\ run' = 2
    /\ pc' = "sampled_start"
    /\ chunk_files' = <<>> /\ saved' = 0 /\ artifact' = <<>> /\ missing' = {}
    /\ rng' = 0 /\ kf' = 0 /\ lp_idx' = 0
    /\ selected_strats' = <<>> /\ covered_lp' = {} /\ n_no_valid' = 0
    /\ draws' = <<>> /\ skipped' = <<>>
    /\ n_total' = 0
    /\ UNCHANGED << graph_desc, chunk_size, dry_run, n_jobs, batch_file,
                    sbatch, task_ranges, chunk_dir, error, unique_strats,
                    top_x, seed >>

NextSampled ==
    \/ SampledNoFiles
    \/ SampledGlob
    \/ SampledLoadFails
    \/ SampledLoadChunk
    \/ SampledKeyNoValid
    \/ SampledKeyChoiceFails
    \/ SampledKeySelect
    \/ SampledSave
    \/ SampledRunAgain

SpecSampled == InitSampled /\ [][NextSampled]_vars

(***************************************************************************)
(* Claims about the sampled reducer.                                       *)
(***************************************************************************)
\* C6: two runs over the same chunk files with the same seed and the same
\* topX make the same choice for every key and end with the same selection
\* map, in the same insertion order, and the same artifact.
C6_SampledDeterministic ==
    (run = 2 /\ pc = "sampled_saved") =>
        /\ draws = first.draws
        /\ selected_strats = first.selected_strats
        /\ artifact = first.artifact

\* a repeated run over two chunk files in which a choice among several
\* candidates was made and two strategies were selected
C6_Witness ==
    /\ run = 2 /\ pc = "sampled_saved"
    /\ Len(chunk_files) >= 2
    /\ Len(selected_strats) >= 2
    /\ \E i \in DOMAIN draws : Len(draws[i].candidates) >= 2

\* The coverage set of a candidate and the subset of a key, stated without
\* the reducer's own operators.
CoverageSet(c) ==
    {p \in 0..(n_qbts - 1) : c[1][p + 2] = "I" /\ c[2][p + 2] = "I"}

SetMin(S) == CHOOSE x \in S : \A y \in S : x <= y

LexLess(T, S) ==
    /\ T # S
    /\ SetMin((T \ S) \cup (S \ T)) \in T

\* the subset that has exactly k subsets before it in lexicographic order
LexSubset(k) ==
    CHOOSE S \in SubsetsOfSize(n_qbts, distance) :
        Cardinality({T \in SubsetsOfSize(n_qbts, distance) : LexLess(T, S)}) = k

InRange(f, k) == f.chunk.idx_min <= k /\ k < f.chunk.idx_max

\* the keys for which some loadable chunk holds a candidate valid for them
KeysWithLocalValid ==
    {k \in 0..(binom(n_qbts, distance) - 1) :
        \E f \in chunk_dir :
            /\ f.loadable
            /\ InRange(f, k)
            /\ \E c \in Elements(f.chunk.strats) : LexSubset(k) \subseteq CoverageSet(c)}

\* C7: after every step, over any set of chunk files (overlapping or
\* repeated ranges included), the selection map has at most as many entries
\* as there are keys with a locally valid candidate, and these are at most
\* totalKeySpaceSize = C(n, d).
C7_SelectionAtMostKeys ==
    /\ Len(selected_strats) <= Cardinality(KeysWithLocalValid)
    /\ Cardinality(KeysWithLocalValid) <= binom(n_qbts, distance)

\* C8: every candidate chosen for key k is a raw candidate of the chunk
\* being processed, whose range contains k, and its coverage set contains
\* the subset at index k of the lexicographic enumeration; every entry of
\* the selection map is valid for at least one key.
C8_ChosenIsLocalAndCovers ==
    /\ \A i \in DOMAIN draws :
          LET f == chunk_files[draws[i].kf + 1]
          IN  /\ f.loadable
              /\ InRange(f, draws[i].lp_idx)
              /\ draws[i].chosen \in Elements(f.chunk.strats)
              /\ LexSubset(draws[i].lp_idx) \subseteq CoverageSet(draws[i].chosen)
    /\ \A c \in Elements(selected_strats) :
          /\ \E i \in DOMAIN draws : draws[i].chosen = c
          /\ \E k \in 0..(binom(n_qbts, distance) - 1) :
                LexSubset(k) \subseteq CoverageSet(c)

\* a strategy that is identity on the lost qubits in both words but not in
\* every position was chosen for the key {0, 2} in a chunk of several keys
C8_Witness ==
    \E i \in DOMAIN draws :
        /\ draws[i].chosen = StratV
        /\ draws[i].lp_idx = 1
        /\ LexSubset(1) = {0, 2}
        /\ Len(draws[i].candidates) >= 2
        /\ chunk_files[draws[i].kf + 1].chunk.idx_max
               - chunk_files[draws[i].kf + 1].chunk.idx_min >= 2

LoadableFiles == {i \in 0..(Len(chunk_files) - 1) : chunk_files[i + 1].loadable}

\* C9: a failed load changes neither the selection map nor the covered set
\* nor the decoding-gap count and does not end the run: the loop goes on
\* with the next file, and the saved artifact is built after every loadable
\* chunk was processed and every unloadable one skipped.
C9_SkipKeepsState ==
    [][ Len(skipped') = Len(skipped) + 1 =>
            /\ selected_strats' = selected_strats
            /\ covered_lp' = covered_lp
            /\ n_no_valid' = n_no_valid
            /\ error' = "" /\ pc' = "sampled_loop"
            /\ kf' = kf + 1 ]_vars

C9_SkipThenSaved ==
    pc = "sampled_saved" =>
        /\ error = "" /\ saved = 1 /\ artifact = selected_strats
        /\ Elements(skipped) = (0..(Len(chunk_files) - 1)) \ LoadableFiles
        /\ covered_lp = UNION {Keys(<<chunk_files[i + 1].chunk.idx_min,
                                      chunk_files[i + 1].chunk.idx_max>>) :
                                 i \in LoadableFiles}
        /\ \A i \in LoadableFiles, k \in KeysWithLocalValid :
              InRange(chunk_files[i + 1], k)
              /\ (\E c \in Elements(chunk_files[i + 1].chunk.strats) :
                     LexSubset(k) \subseteq CoverageSet(c))
              => \E j \in DOMAIN draws : draws[j].kf = i /\ draws[j].lp_idx = k

C9_LoadFailureSkipsFile == C9_SkipKeepsState /\ []C9_SkipThenSaved

\* the first file could not be loaded, the second was processed and a
\* strategy of it selected, the artifact was saved
C9_Witness ==
    /\ pc = "sampled_saved"
    /\ skipped = << 0 >>
    /\ \E i \in DOMAIN draws : draws[i].kf = 1
    /\ artifact # <<>>

\* C10: with topX <= 0 the run aborts before any chunk is processed: no
\* loss pattern of any chunk is looked at, no candidate is selected and no
\* artifact is written.
C10_NonPositiveTopXAborts ==
    top_x <= 0 =>
        /\ covered_lp = {}
        /\ draws = <<>>
        /\ saved = 0

\* The cost of a candidate and the eligible set of a key, stated without the
\* reducer's own operators: the measurement at a position is identity iff
\* both words are, over the positions 0..n_qbts.
Cost(c) ==
    n_qbts - Cardinality({p \in 1..(n_qbts + 1) : c[1][p] = "I" /\ c[2][p] = "I"})

\* the (1-based) discovery indices of the candidates of file f valid for key k
LocalValid(f, k) ==
    LET lost == LexSubset(k)
    IN  {i \in DOMAIN f.chunk.strats : lost \subseteq CoverageSet(f.chunk.strats[i])}

\* candidate i comes before candidate j in a stable ascending sort by cost
SortsBefore(f, i, j) ==
    \/ Cost(f.chunk.strats[i]) < Cost(f.chunk.strats[j])
    \/ (Cost(f.chunk.strats[i]) = Cost(f.chunk.strats[j]) /\ i < j)

\* the first min(x, count) valid candidates of that sort
CheapestPrefix(f, k, x) ==
    LET local == LocalValid(f, k)
    IN  {i \in local : Cardinality({j \in local : SortsBefore(f, j, i)}) < x}

\* C11: with topX >= 1, for every key with count >= 1 locally valid
\* candidates the set the random choice is drawn from is exactly the first
\* min(topX, count) valid candidates of a stable ascending sort by cost
\* (ties in discovery order), and the chosen candidate is one of them, for
\* every seed; every such key of a processed chunk gets its draw.
C11_EligibleIsCheapestPrefix ==
    top_x >= 1 =>
        /\ \A i \in DOMAIN draws :
              LET f == chunk_files[draws[i].kf + 1]
                  k == draws[i].lp_idx
                  count == Cardinality(LocalValid(f, k))
                  eligible == CheapestPrefix(f, k, top_x)
              IN  /\ count >= 1
                  /\ Elements(draws[i].candidates) = eligible
                  /\ Len(draws[i].candidates) = Min(top_x, count)
                  /\ draws[i].chosen_idx \in eligible
                  /\ draws[i].chosen = f.chunk.strats[draws[i].chosen_idx]
        /\ pc = "sampled_saved" =>
              \A n \in LoadableFiles :
                 \A k \in 0..(n_total - 1) :
                    (InRange(chunk_files[n + 1], k)
                       /\ LocalValid(chunk_files[n + 1], k) # {})
                    => \E i \in DOMAIN draws : draws[i].kf = n /\ draws[i].lp_idx = k

\* the valid candidates of key 0 have the costs 3, 1, 4, 1 in discovery
\* order and topX is 2: the two candidates of cost 1 are the eligible ones
C11_Witness ==
    /\ top_x = 2
    /\ \E i \in DOMAIN draws :
          LET f == chunk_files[draws[i].kf + 1]
          IN  /\ draws[i].lp_idx = 0
              /\ LocalValid(f, 0) = {1, 2, 3, 4}
              /\ [j \in 1..4 |-> Cost(f.chunk.strats[j])] = <<3, 1, 4, 1>>
              /\ Elements(draws[i].candidates) = {2, 4}
              /\ draws[i].chosen_idx \in {2, 4}

\* The partition of [0, total) a job array of chunk size cs writes: the
\* ranges start at the multiples of cs and the last one is cut at total.
PartitionOf(total, cs) ==
    {<<lo, Min(lo + cs, total)>> : lo \in {x \in 0..(total - 1) : x % cs = 0}}

IsPlannedPartition ==
    /\ \A f \in chunk_dir : f.loadable
    /\ \E cs \in 1..binom(n_qbts, distance) :
          {<<f.IdxMin, f.IdxMax>> : f \in chunk_dir}
              = PartitionOf(binom(n_qbts, distance), cs)

RECURSIVE NumDigits(_)
NumDigits(n) == IF n < 10 THEN 1 ELSE 1 + NumDigits(n \div 10)

RECURSIVE Pow10(_)
Pow10(e) == IF e = 0 THEN 1 ELSE 10 * Pow10(e - 1)

\* the name that starts with the decimals of a and "_" is before the name
\* that starts with the decimals of b and "_" in string order (a # b): the
\* leading digits decide, and "_" is after every digit
NameStartBefore(a, b) ==
    LET l == Min(NumDigits(a), NumDigits(b))
        pa == a \div Pow10(NumDigits(a) - l)
        pb == b \div Pow10(NumDigits(b) - l)
    IN  pa < pb \/ (pa = pb /\ NumDigits(a) > NumDigits(b))

SameNumberOfDigits == \A f, h \in chunk_dir : NumDigits(f.IdxMin) = NumDigits(h.IdxMin)

ChunksAscendByStart ==
    \A i, j \in DOMAIN chunk_files :
        i < j => chunk_files[i].chunk.idx_min < chunk_files[j].chunk.idx_min

DrawsAscendByKeyIndex ==
    \A i, j \in DOMAIN draws : i < j => draws[i].lp_idx < draws[j].lp_idx

CoveredByLoaded ==
    {k \in 0..(binom(n_qbts, distance) - 1) :
        \E f \in chunk_dir : f.loadable /\ InRange(f, k)}

KeysWithoutLocalValid ==
    {k \in 0..(binom(n_qbts, distance) - 1) :
        \E f \in chunk_dir : f.loadable /\ InRange(f, k) /\ LocalValid(f, k) = {}}

\* C13: at the end of a run the reported coverage gap is exactly the set of
\* key indices of [0, total) in the range of no loaded chunk, the
\* decoding-gap count is the number of keys that lie in a loaded chunk's
\* range and have no valid candidate in that chunk (such keys are covered,
\* not missing), and the artifact is built from the selection map.
C13_GapReportsExact ==
    pc = "sampled_saved" =>
        /\ missing = (0..(binom(n_qbts, distance) - 1)) \ CoveredByLoaded
        /\ KeysWithoutLocalValid \cap missing = {}
        /\ n_no_valid = Cardinality(KeysWithoutLocalValid)
        /\ error = "" /\ saved = 1 /\ artifact = selected_strats

====
